---- MODULE Spec2Model ----
(***************************************************************************)
(* Model of src/app.py: the Streamlit script that loads a table of         *)
(* blockchain blocks, cleans it, derives three features, flags rows above  *)
(* percentile thresholds and computes a weighted risk score.               *)
(*                                                                         *)
(* Every numeric cell is a value of the extended rationals: a reduced      *)
(* fraction n/d (k = "num"), NaN (pandas' missing value), +inf or -inf.    *)
(* The arithmetic is exact; the binary rounding of float64 is not          *)
(* modelled.  The header strip of line 17 is part of Load: the headers of  *)
(* raw are the stripped names.                                             *)
(***************************************************************************)
EXTENDS Integers, Sequences, FiniteSets, TLC

----------------------------------------------------------------------------
(* Bounds of the model *)

\* The largest number of rows of the table read from data.csv.gz.
MaxRows == 3

\* The number of rows of the tall tables (heights 1..TallRows).
TallRows == 12

\* The largest number of rows of a file whose row order is permuted.
MaxPermRows == 3

----------------------------------------------------------------------------
(* Extended rational values *)

NaN  == [k |-> "nan",  n |-> 0, d |-> 1]
PInf == [k |-> "pinf", n |-> 0, d |-> 1]
NInf == [k |-> "ninf", n |-> 0, d |-> 1]

\* A script variable that has not been assigned yet in this run.
Unset == [k |-> "unset", n |-> 0, d |-> 1]

Abs(i) == IF i < 0 THEN -i ELSE i

RECURSIVE GCD(_, _)
GCD(a, b) == IF b = 0 THEN a ELSE GCD(b, a % b)

\* The fraction n/d (d # 0) in lowest terms with a positive denominator.
Num(n, d) ==
    LET g == GCD(Abs(n), Abs(d))
        s == IF d < 0 THEN -1 ELSE 1
    IN  [k |-> "num", n |-> (s * n) \div g, d |-> Abs(d) \div g]

Int2Val(i) == [k |-> "num", n |-> i, d |-> 1]

IsNum(v) == v.k = "num"
IsNaN(v) == v.k = "nan"

\* -1, 0, 1 for a value that is not NaN (the infinities have a sign).
Sign(v) ==
    IF v.k = "pinf" THEN 1
    ELSE IF v.k = "ninf" THEN -1
    ELSE IF v.n > 0 THEN 1 ELSE IF v.n < 0 THEN -1 ELSE 0

Neg(v) ==
    IF v.k = "pinf" THEN NInf
    ELSE IF v.k = "ninf" THEN PInf
    ELSE IF v.k = "num" THEN Num(-v.n, v.d)
    ELSE v

Add(a, b) ==
    IF IsNaN(a) \/ IsNaN(b) THEN NaN
    ELSE IF IsNum(a) /\ IsNum(b) THEN Num(a.n * b.d + b.n * a.d, a.d * b.d)
    ELSE IF IsNum(a) THEN b
    ELSE IF IsNum(b) THEN a
    ELSE IF a.k = b.k THEN a
    ELSE NaN

Sub(a, b) == Add(a, Neg(b))

Mul(a, b) ==
    IF IsNaN(a) \/ IsNaN(b) THEN NaN
    ELSE IF IsNum(a) /\ IsNum(b) THEN Num(a.n * b.n, a.d * b.d)
    ELSE IF Sign(a) * Sign(b) = 0 THEN NaN
    ELSE IF Sign(a) * Sign(b) > 0 THEN PInf
    ELSE NInf

\* IEEE division as pandas applies it to a column: x/0 is +inf, -inf or NaN.
Div(a, b) ==
    IF IsNaN(a) \/ IsNaN(b) THEN NaN
    ELSE IF IsNum(a) /\ IsNum(b) THEN
        IF b.n # 0 THEN Num(a.n * b.d, a.d * b.n)
        ELSE IF a.n > 0 THEN PInf
        ELSE IF a.n < 0 THEN NInf
        ELSE NaN
    ELSE IF IsNum(a) THEN Int2Val(0)
    ELSE IF ~IsNum(b) THEN NaN
    ELSE IF Sign(b) < 0 THEN Neg(a)
    ELSE a

\* a > b; every comparison with NaN is false.
Gt(a, b) ==
    IF IsNaN(a) \/ IsNaN(b) THEN FALSE
    ELSE IF IsNum(a) /\ IsNum(b) THEN a.n * b.d > b.n * a.d
    ELSE IF a.k = "pinf" THEN b.k # "pinf"
    ELSE IF a.k = "ninf" THEN FALSE
    ELSE b.k = "ninf"

\* a >= b; every comparison with NaN is false.
Ge(a, b) ==
    IF IsNaN(a) \/ IsNaN(b) THEN FALSE
    ELSE a = b \/ Gt(a, b)

\* A cell of the boolean column suspicious.
BoolVal(b) == [k |-> "bool", n |-> IF b THEN 1 ELSE 0, d |-> 1]

----------------------------------------------------------------------------
(* Tables: a DataFrame is its column names, in order, and its rows, each a *)
(* function from the column names to cells.                                *)

Range(s) == {s[i] : i \in 1..Len(s)}

NoTable == [columns |-> <<>>, rows |-> <<>>]

HasColumn(t, c) == c \in Range(t.columns)

\* df[c] as the sequence of its cells.
Column(t, c) == [i \in 1..Len(t.rows) |-> t.rows[i][c]]

\* df[c] = vals: a new column is appended, an existing one is overwritten.
SetColumn(t, c, vals) ==
    [columns |-> IF HasColumn(t, c) THEN t.columns ELSE Append(t.columns, c),
     rows    |-> [i \in 1..Len(t.rows) |->
                    [x \in Range(t.columns) \cup {c} |->
                        IF x = c THEN vals[i] ELSE t.rows[i][x]]]]

RECURSIVE Masked(_, _)
Masked(rows, mask) ==
    IF rows = <<>> THEN <<>>
    ELSE (IF Head(mask) THEN <<Head(rows)>> ELSE <<>>)
             \o Masked(Tail(rows), Tail(mask))

\* df[mask]: the rows whose entry of the boolean mask is true, in their order.
SelectRows(t, mask) == [t EXCEPT !.rows = Masked(t.rows, mask)]

----------------------------------------------------------------------------
(* STEP 2: DATA CLEANING *)

DropNa(t) ==
    SelectRows(t, [i \in 1..Len(t.rows) |->
                      \A c \in DOMAIN t.rows[i] : ~IsNaN(t.rows[i][c])])

RECURSIVE KeepFirst(_, _)
KeepFirst(rows, seen) ==
    IF rows = <<>> THEN <<>>
    ELSE IF Head(rows) \in seen THEN KeepFirst(Tail(rows), seen)
    ELSE <<Head(rows)>> \o KeepFirst(Tail(rows), seen \cup {Head(rows)})

\* drop_duplicates(): the first copy of every row is kept.
DropDuplicates(t) == [t EXCEPT !.rows = KeepFirst(t.rows, {})]

numeric_cols ==
    << "size", "tx_count", "difficulty",
       "median_fee_rate", "avg_fee_rate", "total_fees",
       "fee_range_min", "fee_range_max",
       "input_count", "output_count", "output_amount" >>

\* for col in numeric_cols: df = df[df[col] >= 0]
RECURSIVE FilterNonNegative(_, _)
FilterNonNegative(t, cols) ==
    IF cols = <<>> THEN t
    ELSE FilterNonNegative(
             SelectRows(t, [i \in 1..Len(t.rows) |->
                               Ge(t.rows[i][Head(cols)], Int2Val(0))]),
             Tail(cols))

\* The cleaner without the non-negativity filter.
CleanTableNoFilter(t) == DropDuplicates(DropNa(t))

\* The cleaner that drops every copy of a duplicated row.
CleanTableDropAllCopies(t) ==
    LET a == DropNa(t)
        b == SelectRows(a, [i \in 1..Len(a.rows) |->
                               \A j \in 1..Len(a.rows) :
                                   a.rows[j] = a.rows[i] => j = i])
    IN  FilterNonNegative(b, SelectSeq(numeric_cols, LAMBDA c : HasColumn(b, c)))

CleanTable(t) ==
    LET b == DropDuplicates(DropNa(t))
    IN  FilterNonNegative(b, SelectSeq(numeric_cols, LAMBDA c : HasColumn(b, c)))

----------------------------------------------------------------------------
(* STEP 3: FEATURE ENGINEERING *)

FeeSpread(t) ==
    SetColumn(t, "fee_spread",
        [i \in 1..Len(t.rows) |->
            Sub(t.rows[i]["fee_range_max"], t.rows[i]["fee_range_min"])])

TxComplexity(t) ==
    SetColumn(t, "tx_complexity",
        [i \in 1..Len(t.rows) |->
            Add(t.rows[i]["input_count"], t.rows[i]["output_count"])])

FeePerTx(t) ==
    SetColumn(t, "fee_per_tx",
        [i \in 1..Len(t.rows) |->
            Div(t.rows[i]["total_fees"],
                Add(t.rows[i]["tx_count"], Int2Val(1)))])

DeriveFeatures(t) == FeePerTx(TxComplexity(FeeSpread(t)))

----------------------------------------------------------------------------
(* STEP 5: ANOMALY DETECTION *)

RECURSIVE Insert(_, _)
Insert(v, s) ==
    IF s = <<>> THEN <<v>>
    ELSE IF Ge(Head(s), v) THEN <<v>> \o s
    ELSE <<Head(s)>> \o Insert(v, Tail(s))

\* The values in ascending order.
RECURSIVE SortValues(_)
SortValues(s) == IF s = <<>> THEN <<>> ELSE Insert(Head(s), SortValues(Tail(s)))

\* Interpolation between the order statistics lo and hi of the sorted
\* values s at position pos/100 = (n - 1) * percentile / 100.
Interpolate(s, pos) ==
    LET n    == Len(s)
        lo   == pos \div 100
        frac == pos % 100
        hi   == IF lo + 1 < n THEN lo + 1 ELSE lo
    IN  Add(s[lo + 1], Mul(Sub(s[hi + 1], s[lo + 1]), Num(frac, 100)))

\* The quantile that weights the two order statistics the wrong way round.
QuantileSwapped(col, p) ==
    LET s == SortValues(SelectSeq(col, LAMBDA v : ~IsNaN(v)))
        pos  == (Len(s) - 1) * p
        frac == pos % 100
    IN  IF Len(s) = 0 THEN NaN
        ELSE Interpolate(s, IF frac = 0 THEN pos ELSE pos - frac + (100 - frac))

\* The quantile taken over the column as stored, without sorting it.
QuantileUnsorted(col, p) ==
    LET s == SelectSeq(col, LAMBDA v : ~IsNaN(v))
    IN  IF Len(s) = 0 THEN NaN ELSE Interpolate(s, (Len(s) - 1) * p)

\* Series.quantile(p / 100): linear interpolation over the values that are
\* not missing; NaN for an empty column.
Quantile(col, p) ==
    LET s == SortValues(SelectSeq(col, LAMBDA v : ~IsNaN(v)))
    IN  IF Len(s) = 0 THEN NaN ELSE Interpolate(s, (Len(s) - 1) * p)

\* The mask of lines 72-76 for given thresholds.
Suspicious(r, t1, t2, t3) ==
    \/ Gt(r["fee_spread"], t1)
    \/ Gt(r["tx_complexity"], t2)
    \/ Gt(r["fee_per_tx"], t3)

\* The flagger that also flags a row equal to a threshold.
FlagAnomaliesInclusive(t, t1, t2, t3) ==
    SetColumn(t, "suspicious",
        [i \in 1..Len(t.rows) |->
            BoolVal(\/ Ge(t.rows[i]["fee_spread"], t1)
                    \/ Ge(t.rows[i]["tx_complexity"], t2)
                    \/ Ge(t.rows[i]["fee_per_tx"], t3))])

\* df["suspicious"] = ... for the thresholds t1, t2, t3.
FlagAnomalies(t, t1, t2, t3) ==
    SetColumn(t, "suspicious",
        [i \in 1..Len(t.rows) |-> BoolVal(Suspicious(t.rows[i], t1, t2, t3))])

----------------------------------------------------------------------------
(* STEP 6: RISK SCORING *)

\* Series.max(): the largest value that is not missing; NaN if there is none.
RECURSIVE MaxValue(_)
MaxValue(col) ==
    IF col = <<>> THEN NaN
    ELSE LET m == MaxValue(Tail(col))
         IN  IF IsNaN(Head(col)) THEN m
             ELSE IF IsNaN(m) \/ Gt(Head(col), m) THEN Head(col)
             ELSE m

\* round(3): to the nearest thousandth, a tie to the even one.
Round3(v) ==
    IF ~IsNum(v) THEN v
    ELSE LET N  == v.n * 1000
             q  == N \div v.d
             r  == N % v.d
             up == (2 * r > v.d) \/ (2 * r = v.d /\ q % 2 = 1)
         IN  Num(IF up THEN q + 1 ELSE q, 1000)

ScoreRisk(t) ==
    LET m1 == MaxValue(Column(t, "fee_spread"))
        m2 == MaxValue(Column(t, "tx_complexity"))
        m3 == MaxValue(Column(t, "fee_per_tx"))
    IN  SetColumn(t, "risk_score",
            [i \in 1..Len(t.rows) |->
                Round3(Add(Add(Mul(Num(4, 10), Div(t.rows[i]["fee_spread"], m1)),
                               Mul(Num(3, 10), Div(t.rows[i]["tx_complexity"], m2))),
                           Mul(Num(3, 10), Div(t.rows[i]["fee_per_tx"], m3))))])

----------------------------------------------------------------------------
(* The whole run as a function of the table read and the slider's value *)

Thresholds(t, p) ==
    << Quantile(Column(t, "fee_spread"), p),
       Quantile(Column(t, "tx_complexity"), p),
       Quantile(Column(t, "fee_per_tx"), p) >>

\* Lines 16-98 for a table that has the six columns of step 3.
RunPipeline(t, p) ==
    LET f  == DeriveFeatures(CleanTable(t))
        th == Thresholds(f, p)
    IN  [df |-> ScoreRisk(FlagAnomalies(f, th[1], th[2], th[3])), thresh |-> th]

NoOutput == [df |-> NoTable, thresh |-> <<>>]

----------------------------------------------------------------------------
(* The slider of step 4 *)

PctMin == 90
PctMax == 99
PctDefault == 95

----------------------------------------------------------------------------
(* The tables data.csv.gz may hold *)

V(i) == Int2Val(i)

RawColumns ==
    << "height", "size", "tx_count", "total_fees",
       "fee_range_min", "fee_range_max", "input_count", "output_count" >>

\* The columns step 3 reads.
RequiredCols ==
    { "fee_range_max", "fee_range_min", "input_count", "output_count",
      "total_fees", "tx_count" }

MakeRow(cells) ==
    [c \in Range(RawColumns) |->
        cells[CHOOSE i \in 1..Len(RawColumns) : RawColumns[i] = c]]

\*                            height size tx_count total_fees min max in out
\* The example of the feature formulas: spread 80, complexity 5, fee/tx 10.
ExampleRow   == MakeRow(<< V(1),  V(1),  V(4), V(50), V(20), V(100), V(3), V(2) >>)
\* Every feature is 0.
ZeroRow      == MakeRow(<< V(3),  V(0),  V(0), V(0),  V(20), V(20),  V(0), V(0) >>)
\* fee_range_max < fee_range_min, and a negative height: spread -10, fee/tx 3/2.
NegSpreadRow == MakeRow(<< V(-4), V(1),  V(1), V(3),  V(20), V(10),  V(0), V(0) >>)
\* The spread and the fee/tx of the example with a higher complexity (7).
BusyRow      == MakeRow(<< V(5),  V(1),  V(4), V(50), V(20), V(100), V(4), V(3) >>)
\* The example with a negative size.
NegSizeRow   == MakeRow(<< V(1),  V(-1), V(4), V(50), V(20), V(100), V(3), V(2) >>)
\* A row with no total_fees.
MissingRow   == MakeRow(<< V(8),  V(1),  V(4), NaN,   V(20), V(100), V(3), V(2) >>)

Rows == {ExampleRow, ZeroRow, NegSpreadRow, BusyRow, NegSizeRow, MissingRow}

\* The rows of the files whose row order is permuted.
PermRows == {ExampleRow, ZeroRow, BusyRow, NegSizeRow}

\* The file has every raw column, or all but one of the columns of step 3.
Schemas ==
    {RawColumns} \cup
    {SelectSeq(RawColumns, LAMBDA c : c # m) : m \in RequiredCols}

Project(rows, cols) ==
    [columns |-> cols,
     rows    |-> [i \in 1..Len(rows) |-> [c \in Range(cols) |-> rows[i][c]]]]

Inputs ==
    {Project(rows, cols) :
        rows \in UNION {[1..n -> Rows] : n \in 0..MaxRows}, cols \in Schemas}

PermInputs ==
    {Project(rows, cols) :
        rows \in UNION {[1..n -> PermRows] : n \in 0..MaxPermRows},
        cols \in Schemas}

\* Tall tables: row i has height i; the rows below a are low, those from a
\* up to b are middling and those from b on are high, top down or bottom up.
TallRow(i, kind) ==
    IF kind = 1 THEN
        MakeRow(<< V(i), V(1), V(0), V(1),  V(20), V(20),  V(1), V(0) >>)
    ELSE IF kind = 2 THEN
        MakeRow(<< V(i), V(1), V(1), V(4),  V(20), V(30),  V(1), V(0) >>)
    ELSE
        MakeRow(<< V(i), V(1), V(4), V(50), V(20), V(100), V(3), V(2) >>)

TallTable(a, b, rev) ==
    [i \in 1..TallRows |->
        LET j == IF rev THEN TallRows + 1 - i ELSE i
        IN  TallRow(i, IF j < a THEN 1 ELSE IF j < b THEN 2 ELSE 3)]

TallCuts ==
    {c \in (1..(TallRows + 1)) \X (1..(TallRows + 1)) : c[1] <= c[2]}

TallInputs ==
    {Project(TallTable(c[1], c[2], rev), cols) :
        c \in TallCuts, rev \in BOOLEAN, cols \in Schemas}

----------------------------------------------------------------------------
(* The script as a state machine: pc names the step to run next *)

VARIABLES
    raw,                \* the contents of data.csv.gz
    pc,                 \* the step the script runs next
    rerun,              \* FALSE in the first run of the session
    df,
    percentile,
    fee_spread_thresh,
    complexity_thresh,
    fee_tx_thresh,
    suspicious_blocks,
    fee_cap,
    df_plot,
    firstOut            \* history: what the first run produced, if it ended

vars ==
    << raw, pc, rerun, df, percentile, fee_spread_thresh, complexity_thresh,
       fee_tx_thresh, suspicious_blocks, fee_cap, df_plot, firstOut >>

\* The script's variables before its first statement.
Fresh ==
    /\ pc = "load"
    /\ df = NoTable
    /\ percentile = 0
    /\ fee_spread_thresh = Unset
    /\ complexity_thresh = Unset
    /\ fee_tx_thresh = Unset
    /\ suspicious_blocks = NoTable
    /\ fee_cap = Unset
    /\ df_plot = NoTable

Init ==
    /\ raw \in Inputs
    /\ rerun = FALSE
    /\ firstOut = NoOutput
    /\ Fresh

InitTall ==
    /\ raw \in TallInputs
    /\ rerun = FALSE
    /\ firstOut = NoOutput
    /\ Fresh

InitPerm ==
    /\ raw \in PermInputs
    /\ rerun = FALSE
    /\ firstOut = NoOutput
    /\ Fresh

\* STEP 1: LOAD DATA
Load ==
    /\ pc = "load"
    /\ df' = raw
    /\ pc' = "clean"
    /\ UNCHANGED << raw, rerun, percentile, fee_spread_thresh, complexity_thresh,
                    fee_tx_thresh, suspicious_blocks, fee_cap, df_plot, firstOut >>

\* STEP 2: DATA CLEANING
Clean ==
    /\ pc = "clean"
    /\ df' = CleanTable(df)
    /\ pc' = "derive"
    /\ UNCHANGED << raw, rerun, percentile, fee_spread_thresh, complexity_thresh,
                    fee_tx_thresh, suspicious_blocks, fee_cap, df_plot, firstOut >>

\* STEP 3: FEATURE ENGINEERING, all three lines
Derive ==
    /\ pc = "derive"
    /\ RequiredCols \subseteq Range(df.columns)
    /\ df' = DeriveFeatures(df)
    /\ pc' = "slider"
    /\ UNCHANGED << raw, rerun, percentile, fee_spread_thresh, complexity_thresh,
                    fee_tx_thresh, suspicious_blocks, fee_cap, df_plot, firstOut >>

\* Line 46 raises KeyError: nothing has been assigned.
DeriveKeyError46 ==
    /\ pc = "derive"
    /\ ~({"fee_range_max", "fee_range_min"} \subseteq Range(df.columns))
    /\ pc' = "KeyError"
    /\ UNCHANGED << raw, rerun, df, percentile, fee_spread_thresh,
                    complexity_thresh, fee_tx_thresh, suspicious_blocks,
                    fee_cap, df_plot, firstOut >>

\* Line 47 raises KeyError: line 46 has assigned fee_spread.
DeriveKeyError47 ==
    /\ pc = "derive"
    /\ {"fee_range_max", "fee_range_min"} \subseteq Range(df.columns)
    /\ ~({"input_count", "output_count"} \subseteq Range(df.columns))
    /\ df' = FeeSpread(df)
    /\ pc' = "KeyError"
    /\ UNCHANGED << raw, rerun, percentile, fee_spread_thresh, complexity_thresh,
                    fee_tx_thresh, suspicious_blocks, fee_cap, df_plot, firstOut >>

\* Line 48 raises KeyError: lines 46 and 47 have assigned their columns.
DeriveKeyError48 ==
    /\ pc = "derive"
    /\ {"fee_range_max", "fee_range_min", "input_count", "output_count"}
           \subseteq Range(df.columns)
    /\ ~({"total_fees", "tx_count"} \subseteq Range(df.columns))
    /\ df' = TxComplexity(FeeSpread(df))
    /\ pc' = "KeyError"
    /\ UNCHANGED << raw, rerun, percentile, fee_spread_thresh, complexity_thresh,
                    fee_tx_thresh, suspicious_blocks, fee_cap, df_plot, firstOut >>

\* STEP 4: the slider returns its default in the first run and the value
\* the user chose in a later one.
Slider ==
    /\ pc = "slider"
    /\ \E p \in PctMin..PctMax :
          /\ rerun \/ p = PctDefault
          /\ percentile' = p
    /\ pc' = "flag"
    /\ UNCHANGED << raw, rerun, df, fee_spread_thresh, complexity_thresh,
                    fee_tx_thresh, suspicious_blocks, fee_cap, df_plot, firstOut >>

\* STEP 5: ANOMALY DETECTION
Flag ==
    /\ pc = "flag"
    /\ fee_spread_thresh' = Quantile(Column(df, "fee_spread"), percentile)
    /\ complexity_thresh' = Quantile(Column(df, "tx_complexity"), percentile)
    /\ fee_tx_thresh' = Quantile(Column(df, "fee_per_tx"), percentile)
    /\ df' = FlagAnomalies(df, fee_spread_thresh', complexity_thresh',
                           fee_tx_thresh')
    /\ suspicious_blocks' =
           SelectRows(df', [i \in 1..Len(df'.rows) |->
                               df'.rows[i]["suspicious"] = BoolVal(TRUE)])
    /\ pc' = "score"
    /\ UNCHANGED << raw, rerun, percentile, fee_cap, df_plot, firstOut >>

\* STEP 6: RISK SCORING
Score ==
    /\ pc = "score"
    /\ df' = ScoreRisk(df)
    /\ pc' = "plot"
    /\ firstOut' =
           IF rerun THEN firstOut
           ELSE [df |-> df',
                 thresh |-> << fee_spread_thresh, complexity_thresh,
                               fee_tx_thresh >>]
    /\ UNCHANGED << raw, rerun, percentile, fee_spread_thresh, complexity_thresh,
                    fee_tx_thresh, suspicious_blocks, fee_cap, df_plot >>

\* STEP 7: VISUALIZATION
Plot ==
    /\ pc = "plot"
    /\ fee_cap' = Quantile(Column(df, "fee_spread"), 99)
    /\ df_plot' = SelectRows(df, [i \in 1..Len(df.rows) |->
                                     Ge(fee_cap', df.rows[i]["fee_spread"])])
    /\ pc' = "done"
    /\ UNCHANGED << raw, rerun, df, percentile, fee_spread_thresh,
                    complexity_thresh, fee_tx_thresh, suspicious_blocks,
                    firstOut >>

\* A rerun that goes on with the table of the run before.
RerunKeepsTable ==
    /\ pc \in {"plot", "done"}
    /\ rerun' = TRUE
    /\ pc' = "clean"
    /\ UNCHANGED << raw, df, percentile, fee_spread_thresh, complexity_thresh,
                    fee_tx_thresh, suspicious_blocks, fee_cap, df_plot, firstOut >>

\* The user moves the slider: Streamlit runs the script again from line 1,
\* with no variable of the run before.
Rerun ==
    /\ pc # "load"
    /\ rerun' = TRUE
    /\ pc' = "load"
    /\ df' = NoTable
    /\ percentile' = 0
    /\ fee_spread_thresh' = Unset
    /\ complexity_thresh' = Unset
    /\ fee_tx_thresh' = Unset
    /\ suspicious_blocks' = NoTable
    /\ fee_cap' = Unset
    /\ df_plot' = NoTable
    /\ UNCHANGED << raw, firstOut >>

Next ==
    \/ Load
    \/ Clean
    \/ Derive
    \/ DeriveKeyError46
    \/ DeriveKeyError47
    \/ DeriveKeyError48
    \/ Slider
    \/ Flag
    \/ Score
    \/ Plot
    \/ Rerun

Spec == Init /\ [][Next]_vars

SpecTall == InitTall /\ [][Next]_vars

SpecPerm == InitPerm /\ [][Next]_vars

----------------------------------------------------------------------------
(* Vocabulary of the properties *)

AfterClean == pc \in {"derive", "slider", "flag", "score", "plot", "done", "KeyError"}
AfterFlag  == pc \in {"score", "plot", "done"}
AfterScore == pc \in {"plot", "done"}

Zero == Int2Val(0)
One  == Int2Val(1)

RowIds == 1..Len(df.rows)

IsSuspicious(r) == r["suspicious"] = BoolVal(TRUE)

\* The row restricted to the columns of the file.
RawPart(r) == [c \in Range(raw.columns) |-> r[c]]

\* A row the cleaner has to keep.
ValidRow(r) ==
    /\ \A c \in DOMAIN r : ~IsNaN(r[c])
    /\ \A c \in Range(numeric_cols) \cap DOMAIN r : Ge(r[c], Zero)

\* The k-th smallest value of a column, by counting.
OrderStat(col, k) ==
    CHOOSE v \in Range(col) :
        /\ Cardinality({i \in 1..Len(col) : Gt(v, col[i])}) < k
        /\ Cardinality({i \in 1..Len(col) : Ge(v, col[i])}) >= k

\* q is the value at p percent of the way through the ordered column:
\* 100 q = (100 - frac) a + frac b for the two order statistics around it.
IsLinearQuantile(col, p, q) ==
    LET n    == Len(col)
        pos  == (n - 1) * p
        lo   == pos \div 100
        frac == pos % 100
        a    == OrderStat(col, lo + 1)
        b    == OrderStat(col, IF lo + 2 <= n THEN lo + 2 ELSE n)
    IN  Mul(V(100), q) = Add(Mul(V(100 - frac), a), Mul(V(frac), b))

CurrentOutput ==
    [df |-> df,
     thresh |-> << fee_spread_thresh, complexity_thresh, fee_tx_thresh >>]

\* What a run reports for each surviving block.
Results(t) ==
    {[c \in {"height", "fee_spread", "tx_complexity", "fee_per_tx",
             "suspicious", "risk_score"} |-> r[c]] : r \in Range(t.rows)}

Permute(t, f) == [t EXCEPT !.rows = [i \in 1..Len(t.rows) |-> t.rows[f[i]]]]

\* The rows (by position) a run at percentile p flags in the current table.
FlaggedAt(p) ==
    LET th == Thresholds(df, p)
    IN  {i \in RowIds : Suspicious(df.rows[i], th[1], th[2], th[3])}

Flagged == {i \in RowIds : IsSuspicious(df.rows[i])}

----------------------------------------------------------------------------
(* Properties *)

\* C1: after the flagger has run on a non-empty table, each threshold is the
\* linear-interpolation quantile of its feature at the run's percentile, a
\* row is suspicious exactly if one of its features is strictly above its
\* threshold, and a row with no feature above its threshold is not flagged.
C1_FlagIffExceeds ==
    (AfterFlag /\ Len(df.rows) > 0) =>
        /\ IsLinearQuantile(Column(df, "fee_spread"), percentile, fee_spread_thresh)
        /\ IsLinearQuantile(Column(df, "tx_complexity"), percentile, complexity_thresh)
        /\ IsLinearQuantile(Column(df, "fee_per_tx"), percentile, fee_tx_thresh)
        /\ \A i \in RowIds :
              IsSuspicious(df.rows[i]) <=>
                  \/ Gt(df.rows[i]["fee_spread"], fee_spread_thresh)
                  \/ Gt(df.rows[i]["tx_complexity"], complexity_thresh)
                  \/ Gt(df.rows[i]["fee_per_tx"], fee_tx_thresh)
        /\ \A i \in RowIds :
              ( /\ Ge(fee_spread_thresh, df.rows[i]["fee_spread"])
                /\ Ge(complexity_thresh, df.rows[i]["tx_complexity"])
                /\ Ge(fee_tx_thresh, df.rows[i]["fee_per_tx"]) )
              => ~IsSuspicious(df.rows[i])

\* A flagged table with a row exactly at a threshold that is not flagged
\* beside a row that is.
C1_Witness ==
    /\ AfterFlag
    /\ \E i \in RowIds :
          /\ df.rows[i]["fee_spread"] = fee_spread_thresh
          /\ ~IsSuspicious(df.rows[i])
    /\ \E j \in RowIds : IsSuspicious(df.rows[j])

C3_RiskInUnitInterval ==
    ( /\ AfterScore
      /\ Len(df.rows) > 0
      /\ MaxValue(Column(df, "fee_spread")) # Zero
      /\ MaxValue(Column(df, "tx_complexity")) # Zero
      /\ MaxValue(Column(df, "fee_per_tx")) # Zero )
    => \A i \in RowIds :
          /\ IsNum(df.rows[i]["risk_score"])
          /\ Ge(df.rows[i]["risk_score"], Zero)
          /\ Ge(One, df.rows[i]["risk_score"])

\* C4: a run whose cleaned table is empty stops before the flagger: it
\* never gets past step 5 and never ends normally.
C4_EmptyDatasetStops ==
    (AfterClean /\ Len(df.rows) = 0) => pc \notin {"score", "plot", "done"}

\* C5: with one of the six columns of step 3 missing the run fails in
\* step 3, and the failed run has added no column to the table.
C5_NoPartialTable ==
    /\ (AfterClean /\ pc # "derive" /\ ~(RequiredCols \subseteq Range(raw.columns)))
           => pc = "KeyError"
    /\ pc = "KeyError" =>
           Range(df.columns) \cap
               {"fee_spread", "tx_complexity", "fee_per_tx",
                "suspicious", "risk_score"} = {}

\* C6: when a feature's maximum is 0 every risk_score is still a number.
C6_ScoreDefined ==
    ( /\ AfterScore
      /\ \/ MaxValue(Column(df, "fee_spread")) = Zero
         \/ MaxValue(Column(df, "tx_complexity")) = Zero
         \/ MaxValue(Column(df, "fee_per_tx")) = Zero )
    => \A i \in RowIds : IsNum(df.rows[i]["risk_score"])

\* C7: on the table the flagger has just run on, a lower percentile gives
\* thresholds that are no higher and flags a superset of the rows, and a
\* higher percentile gives thresholds no lower and flags a subset.
C7_MonotoneThresholds ==
    (pc = "score" /\ Len(df.rows) > 0) =>
        \A p \in PctMin..PctMax :
            LET th == Thresholds(df, p)
            IN  /\ p <= percentile =>
                      /\ Ge(fee_spread_thresh, th[1])
                      /\ Ge(complexity_thresh, th[2])
                      /\ Ge(fee_tx_thresh, th[3])
                      /\ Flagged \subseteq FlaggedAt(p)
                /\ p >= percentile =>
                      /\ Ge(th[1], fee_spread_thresh)
                      /\ Ge(th[2], complexity_thresh)
                      /\ Ge(th[3], fee_tx_thresh)
                      /\ FlaggedAt(p) \subseteq Flagged

\* A lower percentile has strictly lower thresholds and flags strictly more
\* rows than the run did.
C7_Witness ==
    /\ pc = "score"
    /\ \E p \in PctMin..PctMax :
          /\ p < percentile
          /\ Gt(fee_spread_thresh, Thresholds(df, p)[1])
          /\ Flagged # FlaggedAt(p)
          /\ Flagged # {}

\* C8: what a run produces is what the pipeline yields for the file and
\* the run's percentile, whatever ran before; a later run at the default
\* percentile produces what the first run produced.
C8_RunsIndependent ==
    AfterScore =>
        /\ CurrentOutput = RunPipeline(raw, percentile)
        /\ (rerun /\ firstOut # NoOutput /\ percentile = PctDefault)
               => CurrentOutput = firstOut

\* A later run at another percentile, with other thresholds, after the
\* first run has ended.
C8_Witness ==
    /\ AfterScore
    /\ rerun
    /\ firstOut # NoOutput
    /\ percentile # PctDefault
    /\ Len(df.rows) > 1
    /\ firstOut.thresh # CurrentOutput.thresh

\* C9: when a run has scored its table, the pipeline run on any permutation
\* of the file's rows reports the same results per block and the same
\* thresholds.
C9_PermutationInvariant ==
    pc = "plot" =>
        \A f \in Permutations(1..Len(raw.rows)) :
            LET o == RunPipeline(Permute(raw, f), percentile)
            IN  /\ Results(o.df) = Results(df)
                /\ o.thresh = CurrentOutput.thresh

\* A run on a file with a duplicated row and three distinct blocks out of
\* order, one of them flagged.
C9_Witness ==
    /\ pc = "plot"
    /\ Len(df.rows) = 2
    /\ Len(raw.rows) = 3
    /\ Gt(df.rows[1]["fee_spread"], df.rows[2]["fee_spread"])
    /\ \E i \in RowIds : IsSuspicious(df.rows[i])

\* C10: the cleaned table holds exactly the valid rows of the file, each
\* once, and no later step adds or drops a row.
C10_ExactlyValidRows ==
    AfterClean =>
        LET valid == {r \in Range(raw.rows) : ValidRow(r)}
        IN  /\ {RawPart(df.rows[i]) : i \in RowIds} = valid
            /\ Len(df.rows) = Cardinality(valid)

\* A finished run on three rows, a negative-size row and a pair of equal
\* valid rows, which keeps one row.
C10_Witness ==
    /\ pc = "done"
    /\ Len(raw.rows) = 3
    /\ Len(df.rows) = 1
    /\ \E i \in 1..3 : Gt(Zero, raw.rows[i]["size"])
    /\ \E i, j \in 1..3 :
          i < j /\ raw.rows[i] = raw.rows[j] /\ ValidRow(raw.rows[i])

====
